---- MODULE Spec2Model ----
(***************************************************************************)
(* Sandbag wall calculator (src/app.py): calculate_bags, the cross-section *)
(* layout of plot_wall_cross_section_with_bags, and the run of main that   *)
(* feeds both from the input widgets.                                      *)
(*                                                                         *)
(* Python floats are modelled as exact rationals <<n, d>> in metres, kept  *)
(* in lowest terms with d > 0; Python ints (the results of math.ceil and   *)
(* math.floor, loop counters) are TLA+ integers.  Inputs are drawn from    *)
(* whole centimetres, the grid of the sliders' 0.01 step.                  *)
(***************************************************************************)
EXTENDS Integers, Sequences, FiniteSets

VARIABLES
    entry,            \* the function the run entered: "calculate_bags", "plot", "main"
    pc,               \* position in the code
    err,              \* the exception that ended the run, or "none"
    shape, height, length, bag_length, bag_height,      \* calculate_bags arguments
    layers, effective_length, bags_per_layer, total_bags, \* calculate_bags locals
    result,           \* what calculate_bags returned: <<total_bags, layers>>
    w_base, w_top, bag_width,                            \* plot arguments
    n_layers, layer_thickness, i,                        \* plot locals
    ax,               \* the layers drawn so far, bottom to top
    fig               \* the figure plot returned: the drawn layers

inputs   == <<shape, height, length, bag_length, bag_height>>
cbLocals == <<layers, effective_length, bags_per_layer, total_bags, result>>
plArgs   == <<w_base, w_top, bag_width>>
plLocals == <<n_layers, layer_thickness, i, ax, fig>>
vars     == <<entry, pc, err, inputs, cbLocals, plArgs, plLocals>>

----------------------------------------------------------------------------
(* Rational arithmetic: the float operations the code uses.                *)

Abs(a) == IF a < 0 THEN -a ELSE a

RECURSIVE GCD(_, _)
GCD(a, b) == IF b = 0 THEN a ELSE GCD(b, a % b)

\* n/d in lowest terms with a positive denominator (d # 0)
Norm(n, d) ==
    LET g == GCD(Abs(n), Abs(d))
        s == IF d < 0 THEN -1 ELSE 1
    IN  <<(s * n) \div g, (s * d) \div g>>

Unset    == <<0, 0>>            \* a float variable not yet assigned
Int2R(k) == <<k, 1>>            \* int -> float
Cm(c)    == Norm(c, 100)        \* c centimetres, in metres

IsZero(x)  == x[1] = 0
RAdd(x, y) == Norm(x[1] * y[2] + y[1] * x[2], x[2] * y[2])
RSub(x, y) == Norm(x[1] * y[2] - y[1] * x[2], x[2] * y[2])
RMul(x, y) == Norm(x[1] * y[1], x[2] * y[2])
RNeg(x)    == <<-x[1], x[2]>>
\* x / y for y # 0; the callers raise ZeroDivisionError when y = 0
RDiv(x, y) == Norm(x[1] * y[2], x[2] * y[1])
RLt(x, y)  == x[1] * y[2] < y[1] * x[2]
RLe(x, y)  == x[1] * y[2] <= y[1] * x[2]

\* math.floor and math.ceil: float -> int
floor(x) == x[1] \div x[2]
ceil(x)  == -((-x[1]) \div x[2])

\* math.pi, to six decimal places
pi == <<355, 113>>

----------------------------------------------------------------------------
(* Bounds of the input grids (whole centimetres).                          *)

MaxNegK       == 2      \* heights down to -5 * MaxNegK cm
MaxHeightK    == 5      \* heights up to 5 * MaxHeightK cm
MaxBagHeightK == 4      \* bag heights up to 5 * MaxBagHeightK cm
MaxLengthK    == 3      \* measurements up to 50 * MaxLengthK cm
MaxBagLengthK == 3      \* bag lengths up to 20 * MaxBagLengthK cm

Shapes       == {"Straight", "Arc", "Circle", "Semicircle", "Hexagon"}
HeightCm     == {5 * k : k \in (-MaxNegK)..MaxHeightK} \cup {100}
BagHeightCm  == {5 * k : k \in (-1)..MaxBagHeightK}
LengthCm     == {50 * k : k \in (-1)..MaxLengthK} \cup {500, 1000}
BagLengthCm  == {20 * k : k \in 0..MaxBagLengthK} \cup {35}

NoResult == <<>>

----------------------------------------------------------------------------
(* calculate_bags(height, length, shape, bag_length, bag_height)           *)

\* faulty variant of LayersOf: rounds down instead of up
LayersOfFloor(h, bh) == floor(RDiv(h, bh))

\* layers = math.ceil(height / bag_height), for bag_height # 0
LayersOf(h, bh) == ceil(RDiv(h, bh))

\* faulty variant of EffectiveLength: the Semicircle branch copies the Circle one
EffectiveLengthFullCircle(sh, len) ==
    IF sh = "Circle" \/ sh = "Semicircle" THEN RMul(RMul(Int2R(2), pi), len)
    ELSE len

\* the effective wall length of a shape
EffectiveLength(sh, len) ==
    IF sh = "Straight" THEN len
    ELSE IF sh = "Arc" THEN len
    ELSE IF sh = "Circle" THEN RMul(RMul(Int2R(2), pi), len)
    ELSE IF sh = "Semicircle" THEN RMul(pi, len)
    ELSE len

\* bags_per_layer = math.ceil(effective_length / bag_length), for bag_length # 0
BagsPerLayer(eff, bl) == ceil(RDiv(eff, bl))

\* where calculate_bags returns to
CbReturn == IF entry = "main" THEN "main_176" ELSE "done"

\* line 29; a zero bag_height raises ZeroDivisionError
cb_layers ==
    /\ pc = "cb_29"
    /\ IF IsZero(bag_height)
       THEN /\ pc' = "error"
            /\ err' = "ZeroDivisionError"
            /\ UNCHANGED layers
       ELSE /\ layers' = LayersOf(height, bag_height)
            /\ pc' = "cb_32"
            /\ UNCHANGED err
    /\ UNCHANGED <<entry, inputs, effective_length, bags_per_layer, total_bags,
                   result, plArgs, plLocals>>

\* lines 32-45
cb_effective_length ==
    /\ pc = "cb_32"
    /\ effective_length' = EffectiveLength(shape, length)
    /\ pc' = "cb_48"
    /\ UNCHANGED <<entry, err, inputs, layers, bags_per_layer, total_bags,
                   result, plArgs, plLocals>>

\* faulty variant of cb_bags_per_layer: a zero bag_length is replaced by the default 0.35
cb_bags_per_layer_default ==
    /\ pc = "cb_48"
    /\ bags_per_layer' =
          ceil(RDiv(effective_length, IF IsZero(bag_length) THEN Cm(35) ELSE bag_length))
    /\ pc' = "cb_51"
    /\ UNCHANGED <<entry, err, inputs, layers, effective_length, total_bags,
                   result, plArgs, plLocals>>

\* line 48; a zero bag_length raises ZeroDivisionError
cb_bags_per_layer ==
    /\ pc = "cb_48"
    /\ IF IsZero(bag_length)
       THEN /\ pc' = "error"
            /\ err' = "ZeroDivisionError"
            /\ UNCHANGED bags_per_layer
       ELSE /\ bags_per_layer' = BagsPerLayer(effective_length, bag_length)
            /\ pc' = "cb_51"
            /\ UNCHANGED err
    /\ UNCHANGED <<entry, inputs, layers, effective_length, total_bags,
                   result, plArgs, plLocals>>

\* lines 51-53
cb_return ==
    /\ pc = "cb_51"
    /\ total_bags' = layers * bags_per_layer
    /\ result' = <<total_bags', layers>>
    /\ pc' = CbReturn
    /\ UNCHANGED <<entry, err, inputs, layers, effective_length, bags_per_layer,
                   plArgs, plLocals>>

\* the state of the locals before any of them is assigned
LocalsUnset ==
    /\ err = "none"
    /\ layers = 0 /\ effective_length = Unset /\ bags_per_layer = 0
    /\ total_bags = 0 /\ result = NoResult
    /\ n_layers = 0 /\ layer_thickness = Unset /\ i = 0
    /\ ax = <<>> /\ fig = <<>>

\* a call of calculate_bags with arguments from the grids
InitCalc ==
    /\ entry = "calculate_bags"
    /\ pc = "cb_29"
    /\ shape \in Shapes
    /\ height \in {Cm(c) : c \in HeightCm}
    /\ length \in {Cm(c) : c \in LengthCm}
    /\ bag_length \in {Cm(c) : c \in BagLengthCm}
    /\ bag_height \in {Cm(c) : c \in BagHeightCm}
    /\ w_base = Unset /\ w_top = Unset /\ bag_width = Unset
    /\ LocalsUnset

NextCalc == cb_layers \/ cb_effective_length \/ cb_bags_per_layer \/ cb_return

SpecCalc == InitCalc /\ [][NextCalc]_vars

----------------------------------------------------------------------------
(* plot_wall_cross_section_with_bags(height, bag_height, w_base, w_top,    *)
(* bag_width): the layers and bag rectangles it draws.                     *)

MaxBaseK     == 3       \* base widths up to 25 * MaxBaseK cm
MaxTopK      == 1       \* top widths up to 25 * MaxTopK cm
MaxBagWidthK == 2       \* bag widths up to 10 * MaxBagWidthK cm

BaseWidthCm == {25 * k : k \in 0..MaxBaseK} \cup {300}
TopWidthCm  == {25 * k : k \in 0..MaxTopK} \cup {100}
BagWidthCm  == {10 * k : k \in 0..MaxBagWidthK} \cup {-25, 25}

\* faulty variant of NLayers: the layer count clamped to a minimum of 1
NLayersMin1(h, bh) == IF ceil(RDiv(h, bh)) < 1 THEN 1 ELSE ceil(RDiv(h, bh))

\* line 78: n_layers = math.ceil(height / bag_height), for bag_height # 0
NLayers(h, bh) == ceil(RDiv(h, bh))

\* faulty variant of LayerThickness: the nominal bag height, not adjusted to tile
LayerThicknessNominal(h, n) == IF n # 0 THEN bag_height ELSE h

\* line 80: layer_thickness = height / n_layers, for n_layers # 0
LayerThickness(h, n) == RDiv(h, Int2R(n))

\* lines 90-91: (y / height) if height != 0 else dflt
Frac(y, h, dflt) == IF ~IsZero(h) THEN RDiv(y, h) ELSE Int2R(dflt)

\* faulty variant of WidthAt: base and top exchanged
WidthAtSwapped(wb, wt, frac) == RAdd(wt, RMul(RSub(wb, wt), frac))

\* lines 94-95: w_base + (w_top - w_base) * frac
WidthAt(wb, wt, frac) == RAdd(wb, RMul(RSub(wt, wb), frac))

\* line 98
AvgLayerWidth(width_bottom, width_top) ==
    RDiv(RAdd(width_bottom, width_top), Int2R(2))

\* faulty variant of NBagsLayer: rounds up, cutting the last bag
NBagsLayerCeil(avg, bw) == ceil(RDiv(avg, bw))

\* line 101: math.floor(avg_layer_width / bag_width), for bag_width # 0
NBagsLayer(avg, bw) == floor(RDiv(avg, bw))

\* faulty variant of XStart: starts at the left edge, without the half bag
XStartLeftEdge(total_bags_width, bw) == RNeg(RDiv(total_bags_width, Int2R(2)))

\* line 107: -(total_bags_width / 2.0) + (bag_width / 2.0)
XStart(total_bags_width, bw) ==
    RAdd(RNeg(RDiv(total_bags_width, Int2R(2))), RDiv(bw, Int2R(2)))

\* lines 110-115: the rectangle of bag b (0-based) of a layer
BagRect(x_start, b, bw, y_bottom, y_top) ==
    LET x_center == RAdd(x_start, RMul(Int2R(b), bw))
    IN  [x_center |-> x_center,
         x_left   |-> RSub(x_center, RDiv(bw, Int2R(2))),
         x_right  |-> RAdd(x_center, RDiv(bw, Int2R(2))),
         y_bottom |-> y_bottom,
         y_top    |-> y_top]

\* lines 86-118: layer k (0-based) with its bags, for bag_width # 0
Layer(k) ==
    LET y_bottom         == RMul(Int2R(k), layer_thickness)
        y_top            == RMul(Int2R(k + 1), layer_thickness)
        frac_bottom      == Frac(y_bottom, height, 0)
        frac_top         == Frac(y_top, height, 1)
        width_bottom     == WidthAt(w_base, w_top, frac_bottom)
        width_top        == WidthAt(w_base, w_top, frac_top)
        avg_layer_width  == AvgLayerWidth(width_bottom, width_top)
        n_bags_layer     == NBagsLayer(avg_layer_width, bag_width)
        total_bags_width == RMul(Int2R(n_bags_layer), bag_width)
        x_start          == XStart(total_bags_width, bag_width)
    IN  [y_bottom |-> y_bottom, y_top |-> y_top,
         frac_bottom |-> frac_bottom, frac_top |-> frac_top,
         avg_layer_width |-> avg_layer_width,
         n_bags_layer |-> n_bags_layer,
         total_bags_width |-> total_bags_width,
         bags |-> [b \in 1..n_bags_layer |->
                      BagRect(x_start, b - 1, bag_width, y_bottom, y_top)]]

\* where plot_wall_cross_section_with_bags returns to
PlReturn == IF entry = "main" THEN "main_213" ELSE "done"

\* line 78; a zero bag_height raises ZeroDivisionError
pl_n_layers ==
    /\ pc = "pl_78"
    /\ IF IsZero(bag_height)
       THEN /\ pc' = "error"
            /\ err' = "ZeroDivisionError"
            /\ UNCHANGED n_layers
       ELSE /\ n_layers' = NLayers(height, bag_height)
            /\ pc' = "pl_80"
            /\ UNCHANGED err
    /\ UNCHANGED <<entry, inputs, cbLocals, plArgs, layer_thickness, i, ax, fig>>

\* lines 80-82; n_layers = 0 raises ZeroDivisionError
pl_layer_thickness ==
    /\ pc = "pl_80"
    /\ IF n_layers = 0
       THEN /\ pc' = "error"
            /\ err' = "ZeroDivisionError"
            /\ UNCHANGED <<layer_thickness, i>>
       ELSE /\ layer_thickness' = LayerThickness(height, n_layers)
            /\ i' = 0
            /\ pc' = "pl_84"
            /\ UNCHANGED err
    /\ UNCHANGED <<entry, inputs, cbLocals, plArgs, n_layers, ax, fig>>

\* lines 84-118: one iteration of the layer loop, with its loop over the bags;
\* a zero bag_width raises ZeroDivisionError at line 101
pl_layer ==
    /\ pc = "pl_84"
    /\ i < n_layers
    /\ IF IsZero(bag_width)
       THEN /\ pc' = "error"
            /\ err' = "ZeroDivisionError"
            /\ UNCHANGED <<i, ax>>
       ELSE /\ ax' = Append(ax, Layer(i))
            /\ i' = i + 1
            /\ UNCHANGED <<pc, err>>
    /\ UNCHANGED <<entry, inputs, cbLocals, plArgs, n_layers, layer_thickness, fig>>

\* lines 120-130: the loop is over, the figure is returned
pl_return ==
    /\ pc = "pl_84"
    /\ ~(i < n_layers)
    /\ fig' = ax
    /\ pc' = PlReturn
    /\ UNCHANGED <<entry, err, inputs, cbLocals, plArgs, n_layers, layer_thickness,
                   i, ax>>

\* a call of plot_wall_cross_section_with_bags with arguments from the grids
InitPlot ==
    /\ entry = "plot"
    /\ pc = "pl_78"
    /\ shape = "Straight" /\ length = Unset /\ bag_length = Unset
    /\ height \in {Cm(c) : c \in HeightCm}
    /\ bag_height \in {Cm(c) : c \in BagHeightCm}
    /\ w_base \in {Cm(c) : c \in BaseWidthCm}
    /\ w_top \in {Cm(c) : c \in TopWidthCm}
    /\ bag_width \in {Cm(c) : c \in BagWidthCm}
    /\ LocalsUnset

NextPlot == pl_n_layers \/ pl_layer_thickness \/ pl_layer \/ pl_return

SpecPlot == InitPlot /\ [][NextPlot]_vars

----------------------------------------------------------------------------
(* main(): one run of the Streamlit script.  Each widget returns any value *)
(* it admits; the candidate values include ones below the minimums, which  *)
(* the widgets filter out.                                                 *)

\* faulty variant of NumberInput: min_value is not enforced
NumberInputNoMin(candidates, min_value) == candidates

\* st.number_input(..., min_value=m): a value >= m
NumberInput(candidates, min_value) == {x \in candidates : RLe(min_value, x)}

\* st.number_input(..., min_value=lo, max_value=hi) and st.slider(..., lo, hi, ...)
Slider(candidates, lo, hi) == {x \in candidates : RLe(lo, x) /\ RLe(x, hi)}

\* math.radians
radians(deg) == RDiv(RMul(deg, pi), Int2R(180))

ShapeOptions     == {"Straight", "Arc", "Circle", "Semicircle"}
ArcChoices       == {"Arc length", "Radius + angle"}
MainHeights      == {Cm(c) : c \in {0, 5, 10, 25, 100}}
MainLengths      == {Cm(c) : c \in {0, 10, 1000}}
MainRadii        == {Cm(c) : c \in {0, 10, 500}}
MainAngles       == {Norm(a, 10) : a \in {0, 1, 1800, 3600, 3601}}   \* degrees
MainSliderValues == {Cm(c) : c \in {0, 5, 10, 20, 35, 60, 65}}
MainWidths       == {Cm(c) : c \in {-10, 0, 50}}
MainBagWidths    == {Cm(c) : c \in {0, 1, 25}}

\* lines 139-143
main_shape_height ==
    /\ pc = "main_139"
    /\ shape' \in ShapeOptions
    /\ height' \in NumberInput(MainHeights, Cm(10))
    /\ pc' = "main_146"
    /\ UNCHANGED <<entry, err, length, bag_length, bag_height, cbLocals, plArgs,
                   plLocals>>

\* lines 146-162
main_dimension ==
    /\ pc = "main_146"
    /\ IF shape = "Straight"
       THEN length' \in NumberInput(MainLengths, Cm(10))
       ELSE IF shape = "Arc"
       THEN \E arc_choice \in ArcChoices :
               IF arc_choice = "Arc length"
               THEN length' \in NumberInput(MainLengths, Cm(10))
               ELSE \E radius \in NumberInput(MainRadii, Cm(10)),
                       angle_deg \in Slider(MainAngles, Norm(1, 10), Int2R(360)) :
                       length' = RMul(radians(angle_deg), radius)
       ELSE IF shape = "Circle"
       THEN length' \in NumberInput(MainRadii, Cm(10))
       ELSE length' \in NumberInput(MainRadii, Cm(10))
    /\ pc' = "main_164"
    /\ UNCHANGED <<entry, err, shape, height, bag_length, bag_height, cbLocals,
                   plArgs, plLocals>>

\* lines 164-165
main_sliders ==
    /\ pc = "main_164"
    /\ bag_length' \in Slider(MainSliderValues, Cm(20), Cm(60))
    /\ bag_height' \in Slider(MainSliderValues, Cm(5), Cm(20))
    /\ pc' = "main_172"
    /\ UNCHANGED <<entry, err, shape, height, length, cbLocals, plArgs, plLocals>>

\* lines 172-174: the button; when clicked, calculate_bags is called
main_button ==
    /\ pc = "main_172"
    /\ \E clicked \in BOOLEAN :
          pc' = IF clicked THEN "cb_29" ELSE "done"
    /\ UNCHANGED <<entry, err, inputs, cbLocals, plArgs, plLocals>>

\* lines 176-212: the report, the cross-section widgets (base and top width
\* default to 3 * height and 1 * height), and the call of the plot function
main_cross_section ==
    /\ pc = "main_176"
    /\ LET recommended_base == RMul(Int2R(3), height)
           recommended_top  == RMul(Int2R(1), height)
       IN  /\ w_base' \in NumberInput(MainWidths \cup {recommended_base}, Cm(0))
           /\ w_top' \in NumberInput(MainWidths \cup {recommended_top}, Cm(0))
           /\ bag_width' \in NumberInput(MainBagWidths, Cm(1))
    /\ pc' = "pl_78"
    /\ UNCHANGED <<entry, err, inputs, cbLocals, plLocals>>

\* line 213
main_pyplot ==
    /\ pc = "main_213"
    /\ pc' = "done"
    /\ UNCHANGED <<entry, err, inputs, cbLocals, plArgs, plLocals>>

\* the start of a run: nothing read yet
Init ==
    /\ entry = "main"
    /\ pc = "main_139"
    /\ shape = "" /\ height = Unset /\ length = Unset
    /\ bag_length = Unset /\ bag_height = Unset
    /\ w_base = Unset /\ w_top = Unset /\ bag_width = Unset
    /\ LocalsUnset

Next ==
    \/ main_shape_height \/ main_dimension \/ main_sliders \/ main_button
    \/ cb_layers \/ cb_effective_length \/ cb_bags_per_layer \/ cb_return
    \/ main_cross_section
    \/ pl_n_layers \/ pl_layer_thickness \/ pl_layer \/ pl_return
    \/ main_pyplot

Spec == Init /\ [][Next]_vars

----------------------------------------------------------------------------
(* Claims about calculate_bags, checked under SpecCalc.                    *)

Zero == <<0, 1>>
Positive(x) == RLt(Zero, x)

\* k is the ceiling of x: k >= x > k - 1
IsCeilOf(k, x) == RLe(x, Int2R(k)) /\ RLt(Int2R(k - 1), x)
\* k is the floor of x: k <= x < k + 1
IsFloorOf(k, x) == RLe(Int2R(k), x) /\ RLt(x, Int2R(k + 1))

Returned == entry = "calculate_bags" /\ pc = "done"

\* C1: for height > 0 and bag_height > 0, whatever the shape, measurement and
\* bag length, the layer count calculate_bags returns is ceil(height / bag_height):
\* layers * bag_height >= height > (layers - 1) * bag_height, so layers >= 1.
C1_LayerCountIsCeil ==
    (Returned /\ Positive(height) /\ Positive(bag_height)) =>
        /\ RLe(height, RMul(Int2R(result[2]), bag_height))
        /\ RLt(RMul(Int2R(result[2] - 1), bag_height), height)
        /\ result[2] >= 1

\* a call with a remainder layer has returned: 0.25 m of 0.10 m bags, 3 layers
C1_Witness ==
    /\ Returned
    /\ height = Cm(25) /\ bag_height = Cm(10)
    /\ result[2] = 3

\* the effective length the claim gives for each shape
ClaimedLength(sh, len) ==
    CASE sh = "Circle"     -> RMul(Int2R(2), RMul(pi, len))
      [] sh = "Semicircle" -> RDiv(RMul(Int2R(2), RMul(pi, len)), Int2R(2))
      [] OTHER             -> len

ValidInputs ==
    Positive(height) /\ Positive(length) /\ Positive(bag_length) /\ Positive(bag_height)

\* C2: for valid inputs total_bags = ceil(height / bag_height) *
\* ceil(effective_length / bag_length), the effective length being the measurement
\* for Straight, Arc and unrecognized shapes, 2*pi*measurement for Circle and half
\* of that for Semicircle; height 1.0, measurement 10.0, Straight, bag length 0.35,
\* bag height 0.10 gives 10 layers and 290 bags.
C2_TotalBags ==
    (Returned /\ ValidInputs) =>
        /\ IsCeilOf(result[2], RDiv(height, bag_height))
        /\ result[1] = result[2] * (result[1] \div result[2])
        /\ IsCeilOf(result[1] \div result[2],
                    RDiv(ClaimedLength(shape, length), bag_length))
        /\ (/\ shape = "Straight" /\ height = Cm(100) /\ length = Cm(1000)
            /\ bag_length = Cm(35) /\ bag_height = Cm(10)) => result = <<290, 10>>

\* the concrete scenario has returned its 290 bags in 10 layers
C2_Witness ==
    /\ Returned
    /\ shape = "Straight" /\ height = Cm(100) /\ length = Cm(1000)
    /\ bag_length = Cm(35) /\ bag_height = Cm(10)
    /\ result = <<290, 10>>

\* C3: with a zero bag_height or a zero bag_length calculate_bags ends in a
\* ZeroDivisionError and returns no result, whatever the other arguments are.
C3_ZeroDivisorFails ==
    (entry = "calculate_bags" /\ (IsZero(bag_height) \/ IsZero(bag_length))) =>
        /\ result = NoResult
        /\ pc # "done"
        /\ pc \in {"cb_29", "cb_32", "cb_48"} \/ (pc = "error" /\ err = "ZeroDivisionError")

\* a call with bag_length = 0 and a valid bag_height has failed at line 48
C3_Witness ==
    /\ entry = "calculate_bags" /\ pc = "error" /\ err = "ZeroDivisionError"
    /\ IsZero(bag_length) /\ Positive(bag_height) /\ Positive(height)
    /\ layers >= 1 /\ result = NoResult

----------------------------------------------------------------------------
(* Claims about plot_wall_cross_section_with_bags, checked under SpecPlot. *)

Negative(x) == RLt(x, Zero)
PlotEnded   == entry = "plot" /\ pc \in {"done", "error"}
PlotDone    == entry = "plot" /\ pc = "done"
PlotFailed  == entry = "plot" /\ pc = "error" /\ err = "ZeroDivisionError"

\* exactly one of the three conditions of C4 holds, the other parameters valid
OneInvalid ==
    \/ ~Positive(bag_height) /\ Positive(bag_width) /\ Positive(height)
    \/ Positive(bag_height) /\ ~Positive(bag_width) /\ Positive(height)
    \/ Positive(bag_height) /\ Positive(bag_width) /\ Negative(height)

\* C4 as stated: whenever bag_height <= 0, or bag_width <= 0, or height < 0 (each
\* on its own), the layout fails with a domain error and never completes normally.
C4_InvalidAlwaysFails ==
    (PlotEnded /\ OneInvalid) => (PlotFailed /\ fig = <<>>)

\* ceil(height / bag_height) is 0: -1 < height / bag_height <= 0
ZeroLayers ==
    /\ RLt(RNeg(Int2R(1)), RDiv(height, bag_height))
    /\ RLe(RDiv(height, bag_height), Zero)

\* C4 amended: the layout fails with ZeroDivisionError, drawing nothing, exactly
\* when bag_height = 0, or -1 < height / bag_height <= 0 (no layer to divide the
\* height by), or bag_width = 0 with height / bag_height > 0; otherwise it
\* completes normally: with an empty layout when height / bag_height <= -1, and
\* with layers that hold no bags when bag_width < 0 (the widths being >= 0).
C4_FailsOnlyOnZeroDivisor ==
    PlotEnded =>
        /\ PlotFailed <=>
              \/ IsZero(bag_height)
              \/ ~IsZero(bag_height) /\ ZeroLayers
              \/ /\ ~IsZero(bag_height)
                 /\ Positive(RDiv(height, bag_height))
                 /\ IsZero(bag_width)
        /\ PlotFailed => (fig = <<>> /\ ax = <<>>)
        /\ (PlotDone /\ ~Positive(RDiv(height, bag_height))) => fig = <<>>
        /\ (PlotDone /\ Negative(bag_width)) =>
              \A k \in 1..Len(fig) : fig[k].bags = <<>>

\* a call with bag_width = 0 and the other arguments valid has failed
C4_Witness ==
    /\ PlotFailed
    /\ IsZero(bag_width) /\ Positive(height) /\ Positive(bag_height)
    /\ n_layers >= 1 /\ fig = <<>>

\* C5: for height >= 0 and bag_height > 0 the layout has max(1, ceil(height /
\* bag_height)) layers, so at least one; for height = 0 it completes without a
\* division by zero, its single layer using frac_bottom = 0 and frac_top = 1.
C5_AtLeastOneLayer ==
    (PlotEnded /\ ~Negative(height) /\ Positive(bag_height) /\ Positive(bag_width)) =>
        /\ PlotDone
        /\ Len(fig) >= 1
        /\ IsCeilOf(Len(fig), RDiv(height, bag_height)) \/ (IsZero(height) /\ Len(fig) = 1)
        /\ IsZero(height) => (fig[1].frac_bottom = Int2R(0) /\ fig[1].frac_top = Int2R(1))

RECURSIVE SumThickness(_, _)
SumThickness(ls, k) ==
    IF k = 0 THEN Zero
    ELSE RAdd(SumThickness(ls, k - 1), RSub(ls[k].y_top, ls[k].y_bottom))

\* C6: for height > 0 and bag_height > 0 the layers tile [0, height]: the first
\* starts at 0, each ends where the next starts, the last ends at height, all
\* have the thickness height / layer count, the thicknesses sum to height, the
\* thickness is at most bag_height and equals it exactly when height is an
\* integer multiple of bag_height.
C6_LayersTileHeight ==
    (PlotDone /\ Positive(height) /\ Positive(bag_height)) =>
        LET n == Len(fig)
            t == RDiv(height, Int2R(n))
        IN  /\ n >= 1
            /\ fig[1].y_bottom = Zero
            /\ \A k \in 1..(n - 1) : fig[k].y_top = fig[k + 1].y_bottom
            /\ fig[n].y_top = height
            /\ \A k \in 1..n : RSub(fig[k].y_top, fig[k].y_bottom) = t
            /\ SumThickness(fig, n) = height
            /\ RLe(t, bag_height)
            /\ (t = bag_height) <=> (RDiv(height, bag_height)[2] = 1)

\* 0.25 m of 0.10 m bags has been laid out: three layers of 1/12 m
C6_Witness ==
    /\ PlotDone
    /\ height = Cm(25) /\ bag_height = Cm(10)
    /\ Len(fig) = 3
    /\ fig[2].y_bottom = <<1, 12>> /\ fig[3].y_top = <<1, 4>>

\* the trapezoid's width at height y
TrapezoidWidth(y) ==
    RAdd(w_base, RDiv(RMul(RSub(w_top, w_base), y), height))

Scenario3 ==
    /\ height = Cm(100) /\ bag_height = Cm(10)
    /\ w_base = Cm(300) /\ w_top = Cm(100) /\ bag_width = Cm(25)

\* C7: in every layer the number of bags drawn is floor(avg / bag_width), avg the
\* mean of the trapezoid width at the layer's y_bottom and y_top: the bags' total
\* width is at most avg and short of it by less than one bag_width; height 1.0,
\* bag height 0.10, base 3.0, top 1.0, bag width 0.25 gives 10 layers, 11 bags in
\* layer 0 and 4 in layer 9.
C7_BagsAreFloorOfAvgWidth ==
    (entry = "plot" /\ Positive(bag_width)) =>
        /\ \A k \in 1..Len(ax) :
              LET l   == ax[k]
                  avg == RDiv(RAdd(TrapezoidWidth(l.y_bottom), TrapezoidWidth(l.y_top)),
                              Int2R(2))
              IN  /\ l.avg_layer_width = avg
                  /\ Len(l.bags) = l.n_bags_layer
                  /\ IsFloorOf(Len(l.bags), RDiv(avg, bag_width))
                  /\ RLe(RMul(Int2R(Len(l.bags)), bag_width), avg)
                  /\ RLt(RSub(avg, RMul(Int2R(Len(l.bags)), bag_width)), bag_width)
        /\ (PlotDone /\ Scenario3) =>
              (Len(fig) = 10 /\ Len(fig[1].bags) = 11 /\ Len(fig[10].bags) = 4)

\* the concrete scenario has been laid out
C7_Witness ==
    /\ PlotDone /\ Scenario3
    /\ Len(fig) = 10
    /\ fig[1].avg_layer_width = Cm(290) /\ Len(fig[1].bags) = 11
    /\ fig[10].avg_layer_width = Cm(110) /\ Len(fig[10].bags) = 4

\* C8: in every layer the bags are centred on x = 0: the leftmost centre is
\* -total_bags_width/2 + bag_width/2, each next centre is bag_width further, the
\* k-th centre from the left is minus the k-th from the right; the rectangles
\* run left to right, each bag_width wide with x_left < x_right, adjacent ones
\* share an edge, and together they span [-total_bags_width/2, total_bags_width/2].
C8_BagsCentred ==
    (entry = "plot" /\ Positive(bag_width)) =>
        \A k \in 1..Len(ax) :
            LET bags == ax[k].bags
                n    == Len(bags)
                half == RDiv(RMul(Int2R(n), bag_width), Int2R(2))
            IN  /\ ax[k].total_bags_width = RMul(Int2R(n), bag_width)
                /\ n >= 1 =>
                      /\ bags[1].x_center = RAdd(RNeg(half), RDiv(bag_width, Int2R(2)))
                      /\ bags[1].x_left = RNeg(half)
                      /\ bags[n].x_right = half
                /\ \A b \in 1..n :
                      /\ bags[b].x_center = RNeg(bags[n + 1 - b].x_center)
                      /\ RSub(bags[b].x_right, bags[b].x_left) = bag_width
                      /\ RLt(bags[b].x_left, bags[b].x_right)
                      /\ bags[b].y_bottom = ax[k].y_bottom /\ bags[b].y_top = ax[k].y_top
                /\ \A b \in 1..(n - 1) :
                      /\ bags[b + 1].x_center = RAdd(bags[b].x_center, bag_width)
                      /\ bags[b].x_right = bags[b + 1].x_left

\* a layer of three bags 0.25 m wide has been drawn: centres -0.25, 0, 0.25
C8_Witness ==
    /\ entry = "plot" /\ bag_width = Cm(25)
    /\ Len(ax) >= 1
    /\ Len(ax[1].bags) = 3
    /\ ax[1].bags[1].x_center = Cm(-25)
    /\ ax[1].bags[2].x_center = Zero
    /\ ax[1].bags[3].x_right = <<3, 8>>

Triangular ==
    /\ IsZero(w_top) /\ Positive(height) /\ Positive(bag_height)
    /\ Positive(w_base) /\ Positive(bag_width)

\* C9 as stated: with w_top = 0 and the other arguments positive the layout
\* completes and each layer holds fewer bags than the layer below it.
C9_StrictlyDecreasing ==
    (PlotEnded /\ Triangular) =>
        /\ PlotDone
        /\ \A k \in 1..(Len(fig) - 1) : fig[k + 1].n_bags_layer < fig[k].n_bags_layer
        /\ \A k \in 1..Len(fig) : fig[k].n_bags_layer >= 0

\* C9 amended: with w_top = 0 and the other arguments positive the layout
\* completes, no layer holds more bags than the layer below it (adjacent layers
\* may hold equally many), and no layer holds a negative number of bags.
C9_NeverIncreasing ==
    (PlotEnded /\ Triangular) =>
        /\ PlotDone
        /\ Len(fig) >= 1
        /\ \A k \in 1..(Len(fig) - 1) : fig[k + 1].n_bags_layer <= fig[k].n_bags_layer
        /\ \A k \in 1..Len(fig) :
              fig[k].n_bags_layer >= 0 /\ Len(fig[k].bags) = fig[k].n_bags_layer

\* a triangular wall has been laid out whose two lowest layers hold 11 bags each
\* and whose top layer holds none
C9_Witness ==
    /\ PlotDone /\ Triangular
    /\ Len(fig) = 20
    /\ fig[1].n_bags_layer = 11 /\ fig[2].n_bags_layer = 11
    /\ fig[20].n_bags_layer = 0

----------------------------------------------------------------------------
(* Claim about main, checked under Spec.                                   *)

InCalculateBags == pc \in {"cb_29", "cb_32", "cb_48", "cb_51"}
InPlot          == pc \in {"pl_78", "pl_80", "pl_84"}

\* C10: in every run of main, whatever admissible values the widgets return,
\* calculate_bags and the plot function only run with height, measurement, bag
\* length, bag height and bag width > 0, no ZeroDivisionError is raised, and the
\* layer count calculate_bags reports is the number of layers drawn.
C10_MainCallsAreValid ==
    entry = "main" =>
        /\ pc # "error" /\ err = "none"
        /\ InCalculateBags =>
              /\ Positive(height) /\ Positive(length)
              /\ Positive(bag_length) /\ Positive(bag_height)
        /\ InPlot =>
              /\ Positive(height) /\ Positive(bag_height) /\ Positive(bag_width)
              /\ ~Negative(w_base) /\ ~Negative(w_top)
        /\ pc = "main_213" => (result[2] >= 1 /\ Len(fig) = result[2])

\* a run for an arc given by radius and angle (5 m, 180 degrees) has drawn the
\* 20 layers that calculate_bags reported, with the smallest bag width
C10_Witness ==
    /\ entry = "main" /\ pc = "main_213"
    /\ shape = "Arc" /\ length = RMul(radians(Int2R(180)), Cm(500))
    /\ height = Cm(100) /\ bag_height = Cm(5) /\ bag_width = Cm(1)
    /\ result[2] = 20 /\ Len(fig) = 20

====
